---- MODULE Spec2Model ----
(***************************************************************************)
(* Convenience-store checkout core: ShoppingCart (shopping_cart.py) and    *)
(* Payment / Receipt (payment.py).  Product and OrderItem live in modules  *)
(* outside src/ (product.py, order_item.py); they are modelled from the    *)
(* design document (sections 3, 4.1 and 6).                                *)
(***************************************************************************)
EXTENDS Integers, Sequences, FiniteSets, TLC

(* ------------------------------ bounds -------------------------------- *)

\* largest stock level a product takes
MaxStock == 2
\* largest quantity argument, and largest quantity a line is followed to
MaxQty == 3
\* quantity arguments go down to -MaxNeg, and so do the lines followed
MaxNeg == 1
\* number of Payment objects constructed in one run
MaxPayments == 2
\* number of Receipt objects constructed in one run
MaxReceipts == 2
\* number of Invoice objects constructed in one run
MaxInvoices == 2
\* largest length of the caller's list of line items
MaxItems == 2
\* largest length of an account number passed to BankDebit
MaxAccountLen == 6

(* ----------------------------- products ------------------------------- *)

\* Product objects.  "p1" and "p1x" are two distinct objects carrying the
\* same product_id (the catalog replaced the object of product 1 after a
\* cart took a reference to the old one); "p2" is another product.
Products == {"p1", "p2", "p1x"}

NoProduct == "none"

product_id(p) == IF p = "p2" THEN 2 ELSE 1

ProductIds == {product_id(p) : p \in Products}

\* unit prices in cents
Prices == {199, 299}

QtyArgs == (0 - MaxNeg)..MaxQty

VARIABLES
    items,            \* ShoppingCart.items: sequence of OrderItem
    stock,            \* Product.stock, per product object
    price,            \* Product.price, per product object
    payments,         \* the Payment objects, in construction order
    payment_counter,  \* Payment._payment_counter
    receipt_counter,  \* Receipt._receipt_counter
    receipts,         \* every Receipt constructed so far, in construction order
    invoices,         \* the Invoice objects, in construction order
    invoice_counter,  \* Invoice._invoice_counter
    order_items,      \* the caller's list of line items, passed to Invoice(...)
    given_account,    \* the account number a caller passes to BankDebit(...)
    bank_debit,       \* the BankDebit built from it: <<>> before, <<object>> after
    method_name,      \* what its get_method_name() returned: <<>> before any call
    last              \* the call that produced this state, and what it returned

vars == <<items, stock, price, payments, payment_counter, receipt_counter, receipts,
          invoices, invoice_counter, order_items,
          given_account, bank_debit, method_name, last>>

cartVars == <<items, stock, price>>
payVars == <<payments, payment_counter, receipt_counter, receipts>>
invVars == <<invoices, invoice_counter, order_items>>
bankVars == <<given_account, bank_debit, method_name>>

Call(op, p, id, q, ret) ==
    [op |-> op, product |-> p, id |-> id, quantity |-> q, ret |-> ret]

(* ------------------------- Product, OrderItem ------------------------- *)

\* Product.is_available(): true iff stock > 0
is_available(stk, p) == stk[p] > 0

\* OrderItem(product, quantity): a pure data holder
OrderItem(p, q) == [product |-> p, quantity |-> q]

\* OrderItem.update_quantity(new_quantity): replaces unconditionally
update_quantity(item, q) == [item EXCEPT !.quantity = q]

\* OrderItem.get_line_total(): quantity x current unit price
get_line_total(item, prc) == item.quantity * prc[item.product]

(* ---------------------------- ShoppingCart ---------------------------- *)

\* index of the first line whose product has identifier id, 0 if none
RECURSIVE FindFrom(_, _, _)
FindFrom(its, id, i) ==
    IF i > Len(its) THEN 0
    ELSE IF product_id(its[i].product) = id THEN i
    ELSE FindFrom(its, id, i + 1)

FindLine(its, id) == FindFrom(its, id, 1)

\* the list without its i-th element: list.pop(i)
Pop(its, i) == [k \in 1..(Len(its) - 1) |-> IF k < i THEN its[k] ELSE its[k + 1]]

\* add_item looking for the same Product object instead of the same identifier
add_item_by_object(its, stk, p, q) ==
    IF ~is_available(stk, p) THEN [items |-> its, ret |-> FALSE]
    ELSE IF q > stk[p] THEN [items |-> its, ret |-> FALSE]
    ELSE IF \E i \in 1..Len(its) : its[i].product = p
         THEN LET i == CHOOSE k \in 1..Len(its) : its[k].product = p IN
              [items |-> [its EXCEPT ![i] = update_quantity(its[i], its[i].quantity + q)],
               ret |-> TRUE]
         ELSE [items |-> Append(its, OrderItem(p, q)), ret |-> TRUE]

\* add_item without the availability test
add_item_no_availability(its, stk, p, q) ==
    IF q > stk[p] THEN [items |-> its, ret |-> FALSE]
    ELSE LET i == FindLine(its, product_id(p)) IN
         IF i # 0
         THEN [items |-> [its EXCEPT ![i] = update_quantity(its[i], its[i].quantity + q)],
               ret |-> TRUE]
         ELSE [items |-> Append(its, OrderItem(p, q)), ret |-> TRUE]

\* add_item overwriting the quantity of an existing line instead of adding to it
add_item_overwrite(its, stk, p, q) ==
    IF ~is_available(stk, p) THEN [items |-> its, ret |-> FALSE]
    ELSE IF q > stk[p] THEN [items |-> its, ret |-> FALSE]
    ELSE LET i == FindLine(its, product_id(p)) IN
         IF i # 0
         THEN [items |-> [its EXCEPT ![i] = update_quantity(its[i], q)], ret |-> TRUE]
         ELSE [items |-> Append(its, OrderItem(p, q)), ret |-> TRUE]

add_item(its, stk, p, q) ==
    IF ~is_available(stk, p) THEN [items |-> its, ret |-> FALSE]
    ELSE IF q > stk[p] THEN [items |-> its, ret |-> FALSE]
    ELSE LET i == FindLine(its, product_id(p)) IN
         IF i # 0
         THEN [items |-> [its EXCEPT ![i] = update_quantity(its[i], its[i].quantity + q)],
               ret |-> TRUE]
         ELSE [items |-> Append(its, OrderItem(p, q)), ret |-> TRUE]

\* remove_item popping the last line instead of the matching one
remove_item_pops_last(its, id) ==
    LET i == FindLine(its, id) IN
    IF i # 0 THEN [items |-> Pop(its, Len(its)), ret |-> TRUE]
    ELSE [items |-> its, ret |-> FALSE]

remove_item(its, id) ==
    LET i == FindLine(its, id) IN
    IF i # 0 THEN [items |-> Pop(its, i), ret |-> TRUE]
    ELSE [items |-> its, ret |-> FALSE]

\* first line with identifier id whose product's stock admits q, 0 if none:
\* the loop goes on past a matching line that fails the stock test
RECURSIVE FindUpdatable(_, _, _, _, _)
FindUpdatable(its, stk, id, q, i) ==
    IF i > Len(its) THEN 0
    ELSE IF product_id(its[i].product) = id /\ q <= stk[its[i].product] THEN i
    ELSE FindUpdatable(its, stk, id, q, i + 1)

\* update_item_quantity delegating to remove_item for negative quantities only
update_item_quantity_negative_only(its, stk, id, q) ==
    IF q < 0 THEN remove_item(its, id)
    ELSE LET i == FindUpdatable(its, stk, id, q, 1) IN
         IF i # 0
         THEN [items |-> [its EXCEPT ![i] = update_quantity(its[i], q)], ret |-> TRUE]
         ELSE [items |-> its, ret |-> FALSE]

\* update_item_quantity adding to the line's quantity instead of replacing it
update_item_quantity_adds(its, stk, id, q) ==
    IF q <= 0 THEN remove_item(its, id)
    ELSE LET i == FindUpdatable(its, stk, id, q, 1) IN
         IF i # 0
         THEN [items |-> [its EXCEPT ![i] = update_quantity(its[i], its[i].quantity + q)],
               ret |-> TRUE]
         ELSE [items |-> its, ret |-> FALSE]

update_item_quantity(its, stk, id, q) ==
    IF q <= 0 THEN remove_item(its, id)
    ELSE LET i == FindUpdatable(its, stk, id, q, 1) IN
         IF i # 0
         THEN [items |-> [its EXCEPT ![i] = update_quantity(its[i], q)], ret |-> TRUE]
         ELSE [items |-> its, ret |-> FALSE]

\* sum(item.get_line_total() for item in self.items), left to right from 0
RECURSIVE TotalFrom(_, _, _)
TotalFrom(its, prc, i) ==
    IF i > Len(its) THEN 0
    ELSE get_line_total(its[i], prc) + TotalFrom(its, prc, i + 1)

\* get_total adding up unit prices, the quantities left out
RECURSIVE UnitPricesFrom(_, _, _)
UnitPricesFrom(its, prc, i) ==
    IF i > Len(its) THEN 0
    ELSE prc[its[i].product] + UnitPricesFrom(its, prc, i + 1)

get_total_unit_prices(its, prc) == UnitPricesFrom(its, prc, 1)

get_total(its, prc) == TotalFrom(its, prc, 1)

RECURSIVE CountFrom(_, _)
CountFrom(its, i) ==
    IF i > Len(its) THEN 0
    ELSE its[i].quantity + CountFrom(its, i + 1)

\* get_item_count counting lines instead of units
get_item_count_lines(its) == Len(its)

get_item_count(its) == CountFrom(its, 1)

clear(its) == <<>>

\* add_item reserving what it puts in the cart
add_item_stock_reserving(stk, p, q, ret) ==
    IF ret THEN [stk EXCEPT ![p] = stk[p] - q] ELSE stk

\* the stock levels as add_item(p, q) leaves them: product.stock is read in
\* the two tests and assigned nowhere
add_item_stock(stk, p, q, ret) == stk

\* the lines followed: quantities within the model's window
InWindow(its) ==
    \A i \in 1..Len(its) : its[i].quantity \in (0 - MaxNeg)..MaxQty

(* ------------------------------ actions ------------------------------- *)

\* a fresh cart; every product fully stocked, at its catalog price
InitCart ==
    /\ items = <<>>
    /\ stock = [p \in Products |-> MaxStock]
    /\ price = [p \in Products |-> IF product_id(p) = 1 THEN 299 ELSE 199]

InitPayment ==
    /\ payments = <<>>
    /\ payment_counter = 1
    /\ receipt_counter = 2000
    /\ receipts = <<>>

\* no Invoice yet; the caller's list holds one line item
InitInvoice ==
    /\ invoices = <<>>
    /\ invoice_counter = 1000
    /\ order_items = <<"chips">>

\* no BankDebit under construction
InitBank ==
    /\ given_account = <<>>
    /\ bank_debit = <<>>
    /\ method_name = <<>>

Init ==
    /\ InitCart
    /\ InitPayment
    /\ InitInvoice
    /\ InitBank
    /\ last = Call("init", NoProduct, 0, 0, FALSE)

AddItem ==
    \E p \in Products, q \in QtyArgs :
        LET r == add_item(items, stock, p, q) IN
        /\ InWindow(r.items)
        /\ items' = r.items
        /\ stock' = add_item_stock(stock, p, q, r.ret)
        /\ last' = Call("add_item", p, product_id(p), q, r.ret)
        /\ UNCHANGED <<price, payVars, invVars, bankVars>>

RemoveItem ==
    \E id \in ProductIds :
        LET r == remove_item(items, id) IN
        /\ items' = r.items
        /\ last' = Call("remove_item", NoProduct, id, 0, r.ret)
        /\ UNCHANGED <<stock, price, payVars, invVars, bankVars>>

UpdateItemQuantity ==
    \E id \in ProductIds, q \in QtyArgs :
        LET r == update_item_quantity(items, stock, id, q) IN
        /\ items' = r.items
        /\ last' = Call("update_item_quantity", NoProduct, id, q, r.ret)
        /\ UNCHANGED <<stock, price, payVars, invVars, bankVars>>

Clear ==
    /\ items' = clear(items)
    /\ last' = Call("clear", NoProduct, 0, 0, FALSE)
    /\ UNCHANGED <<stock, price, payVars, invVars, bankVars>>

\* the catalog changes a product's stock (cart lines hold a shared reference)
SetStock ==
    \E p \in Products, s \in 0..MaxStock :
        /\ s # stock[p]
        /\ stock' = [stock EXCEPT ![p] = s]
        /\ last' = Call("set_stock", NoProduct, 0, 0, FALSE)
        /\ UNCHANGED <<items, price, payVars, invVars, bankVars>>

\* the catalog changes a product's unit price
SetPrice ==
    \E p \in Products, c \in Prices :
        /\ c # price[p]
        /\ price' = [price EXCEPT ![p] = c]
        /\ last' = Call("set_price", p, product_id(p), 0, FALSE)
        /\ UNCHANGED <<items, stock, payVars, invVars, bankVars>>

\* the cart's operations, with the catalog changing stock levels
NextCart ==
    \/ AddItem
    \/ RemoveItem
    \/ UpdateItemQuantity
    \/ Clear
    \/ SetStock

SpecCart == Init /\ [][NextCart]_vars

\* the cart's operations, with the catalog changing unit prices
NextPrice ==
    \/ AddItem
    \/ RemoveItem
    \/ UpdateItemQuantity
    \/ Clear
    \/ SetPrice

SpecPrice == Init /\ [][NextPrice]_vars

(* ------------------------ PaymentMethod variants ---------------------- *)

\* strings the model slices are sequences of one-character strings
DigitalWallet(wallet_provider) ==
    [kind |-> "DigitalWallet", data |-> wallet_provider]

\* account_number[-4:]: the last four characters, or all of a shorter string
LastFour(s) == IF Len(s) <= 4 THEN s ELSE SubSeq(s, Len(s) - 3, Len(s))

BankDebit(account_number) ==
    [kind |-> "BankDebit", data |-> LastFour(account_number)]

PayPal(email) == [kind |-> "PayPal", data |-> email]

\* some other implementation of the PaymentMethod interface, whose
\* process_payment is free to report either outcome on any call
CustomMethod == [kind |-> "Custom", data |-> <<>>]

get_method_name(m) ==
    CASE m.kind = "DigitalWallet" -> <<"Digital Wallet (">> \o m.data \o <<")">>
      [] m.kind = "BankDebit" -> <<"Bank Debit (****">> \o m.data \o <<")">>
      [] m.kind = "PayPal" -> <<"PayPal (">> \o m.data \o <<")">>
      [] OTHER -> <<"Custom">>

\* a BankDebit that can be declined
process_payment_declines(m, amount) ==
    IF m.kind \in {"DigitalWallet", "PayPal"} THEN {TRUE}
    ELSE BOOLEAN

\* the outcomes process_payment(amount) can report
process_payment(m, amount) ==
    IF m.kind \in {"DigitalWallet", "BankDebit", "PayPal"} THEN {TRUE}
    ELSE BOOLEAN

Methods ==
    { DigitalWallet(<<"ApplePay">>),
      BankDebit(<<"1", "2", "3", "4", "5", "6">>),
      PayPal(<<"a@b.com">>),
      CustomMethod }

\* the orders paid for: identifier and total, in cents
Orders == {[order_id |-> 7, amount |-> 1997], [order_id |-> 8, amount |-> 897]}

CustomerNames == {"Jane"}

(* --------------------------- Receipt, Payment ------------------------- *)

\* Receipt.__init__, numbered from the receipt counter
Receipt(number, payment_id, order_id, customer_name, amount, payment_method) ==
    [receipt_number |-> number, payment_id |-> payment_id, order_id |-> order_id,
     customer_name |-> customer_name, amount |-> amount,
     payment_method |-> payment_method]

\* a constructor that already records the payment as successful
Payment_eager(counter, order_id, amount, payment_method) ==
    [payment_id |-> counter, order_id |-> order_id, amount |-> amount,
     payment_method |-> payment_method, status |-> "Success", receipt |-> <<>>,
     processed |-> FALSE]

\* Payment.__init__; receipt is <<>> for None, <<r>> for a Receipt r;
\* processed records whether process() was ever called on the object
Payment(counter, order_id, amount, payment_method) ==
    [payment_id |-> counter, order_id |-> order_id, amount |-> amount,
     payment_method |-> payment_method, status |-> "Pending", receipt |-> <<>>,
     processed |-> FALSE]

\* process() putting a payment that did not succeed back to Pending, to be retried
process_retry(pay, success) ==
    [pay EXCEPT !.status = IF success THEN "Success" ELSE "Pending",
                !.processed = TRUE]

\* Payment.process() with the outcome the method reported
process(pay, success) ==
    [pay EXCEPT !.status = IF success THEN "Success" ELSE "Failed",
                !.processed = TRUE]

\* generate_receipt leaving the receipt counter where it was
generate_receipt_same_number(pay, counter, customer_name) ==
    IF pay.status = "Success"
    THEN LET r == Receipt(counter, pay.payment_id, pay.order_id, customer_name,
                          pay.amount, get_method_name(pay.payment_method))
         IN [payment |-> [pay EXCEPT !.receipt = <<r>>], counter |-> counter,
             ret |-> TRUE]
    ELSE [payment |-> pay, counter |-> counter, ret |-> FALSE]

\* generate_receipt without the test of the status
generate_receipt_any_status(pay, counter, customer_name) ==
    LET r == Receipt(counter, pay.payment_id, pay.order_id, customer_name,
                     pay.amount, get_method_name(pay.payment_method))
    IN [payment |-> [pay EXCEPT !.receipt = <<r>>], counter |-> counter + 1,
        ret |-> TRUE]

\* generate_receipt handing back the receipt already stored, if there is one
generate_receipt_once(pay, counter, customer_name) ==
    IF pay.status = "Success" /\ pay.receipt # <<>>
    THEN [payment |-> pay, counter |-> counter, ret |-> TRUE]
    ELSE IF pay.status = "Success"
    THEN LET r == Receipt(counter, pay.payment_id, pay.order_id, customer_name,
                          pay.amount, get_method_name(pay.payment_method))
         IN [payment |-> [pay EXCEPT !.receipt = <<r>>], counter |-> counter + 1,
             ret |-> TRUE]
    ELSE [payment |-> pay, counter |-> counter, ret |-> FALSE]

\* Payment.generate_receipt(customer_name): the payment afterwards, the
\* receipt counter afterwards, and whether a Receipt was returned
generate_receipt(pay, counter, customer_name) ==
    IF pay.status = "Success"
    THEN LET r == Receipt(counter, pay.payment_id, pay.order_id, customer_name,
                          pay.amount, get_method_name(pay.payment_method))
         IN [payment |-> [pay EXCEPT !.receipt = <<r>>], counter |-> counter + 1,
             ret |-> TRUE]
    ELSE [payment |-> pay, counter |-> counter, ret |-> FALSE]

\* Payment.get_details(): a projection; the payment is left as it is
get_details(pay) == pay

\* Payment(order_id, amount, payment_method) for an order and a method of the
\* given sets
NewPaymentOf(orders, methods) ==
    \E o \in orders, m \in methods :
        /\ Len(payments) < MaxPayments
        /\ payments' = Append(payments, Payment(payment_counter, o.order_id, o.amount, m))
        /\ payment_counter' = payment_counter + 1
        /\ last' = Call("Payment", NoProduct, Len(payments) + 1, 0, FALSE)
        /\ UNCHANGED <<receipt_counter, receipts, cartVars, invVars, bankVars>>

NewPayment == NewPaymentOf(Orders, Methods)

Process ==
    \E i \in 1..Len(payments) :
        \E success \in process_payment(payments[i].payment_method, payments[i].amount) :
            /\ payments' = [payments EXCEPT ![i] = process(payments[i], success)]
            /\ last' = Call("process", NoProduct, i, 0, success)
            /\ UNCHANGED <<payment_counter, receipt_counter, receipts, cartVars, invVars, bankVars>>

GenerateReceipt ==
    \E i \in 1..Len(payments), name \in CustomerNames :
        LET r == generate_receipt(payments[i], receipt_counter, name) IN
        /\ r.counter <= 2000 + MaxReceipts
        /\ payments' = [payments EXCEPT ![i] = r.payment]
        /\ receipt_counter' = r.counter
        /\ receipts' = IF r.ret THEN receipts \o r.payment.receipt ELSE receipts
        /\ last' = Call("generate_receipt", NoProduct, i, 0, r.ret)
        /\ UNCHANGED <<payment_counter, cartVars, invVars, bankVars>>

GetDetails ==
    \E i \in 1..Len(payments) :
        /\ payments' = [payments EXCEPT ![i] = get_details(payments[i])]
        /\ last' = Call("get_details", NoProduct, i, 0, FALSE)
        /\ UNCHANGED <<payment_counter, receipt_counter, receipts, cartVars, invVars, bankVars>>

NextPayment ==
    \/ NewPayment
    \/ Process
    \/ GenerateReceipt
    \/ GetDetails

SpecPayment == Init /\ [][NextPayment]_vars

(* ------------------------------- Invoice ------------------------------ *)

\* the values a line item of an order takes
LineItems == {"chips", "fuel"}

\* Invoice.__init__: self.items = items keeps the caller's list object itself,
\* here the reference "order_items"; total_amount is a number, kept by value.
\* marked records whether mark_as_paid() was ever called, given_items what the
\* list held when the Invoice was constructed.  (issue_date and due_date are
\* clock readings and are left out.)
Invoice(counter, order_id, customer_name, items_ref, total_amount, held) ==
    [invoice_number |-> counter, order_id |-> order_id,
     customer_name |-> customer_name, items |-> items_ref,
     total_amount |-> total_amount, status |-> "Unpaid",
     marked |-> FALSE, given_items |-> held]

\* the list a reference denotes
Deref(ref, lst) == IF ref = "order_items" THEN lst ELSE <<>>

\* mark_as_paid() flipping the status
mark_as_paid_toggle(inv) ==
    [inv EXCEPT !.status = IF inv.status = "Paid" THEN "Unpaid" ELSE "Paid",
                !.marked = TRUE]

\* Invoice.mark_as_paid()
mark_as_paid(inv) == [inv EXCEPT !.status = "Paid", !.marked = TRUE]

\* Invoice.generate_invoice(): the projection returned
generate_invoice(inv, lst) ==
    [invoice_number |-> <<"INV-", inv.invoice_number>>,
     order_id |-> inv.order_id, customer_name |-> inv.customer_name,
     items |-> Deref(inv.items, lst), total_amount |-> inv.total_amount,
     status |-> inv.status]

NewInvoice ==
    \E o \in Orders, name \in CustomerNames :
        /\ Len(invoices) < MaxInvoices
        /\ invoices' = Append(invoices,
               Invoice(invoice_counter, o.order_id, name, "order_items", o.amount,
                       order_items))
        /\ invoice_counter' = invoice_counter + 1
        /\ last' = Call("Invoice", NoProduct, Len(invoices) + 1, 0, FALSE)
        /\ UNCHANGED <<order_items, cartVars, payVars, bankVars>>

MarkAsPaid ==
    \E k \in 1..Len(invoices) :
        /\ invoices' = [invoices EXCEPT ![k] = mark_as_paid(invoices[k])]
        /\ last' = Call("mark_as_paid", NoProduct, k, 0, FALSE)
        /\ UNCHANGED <<invoice_counter, order_items, cartVars, payVars, bankVars>>

\* generate_invoice() builds its projection and writes nothing
GenerateInvoice ==
    \E k \in 1..Len(invoices) :
        /\ last' = Call("generate_invoice", NoProduct, k, 0, FALSE)
        /\ UNCHANGED <<invVars, cartVars, payVars, bankVars>>

\* the caller appends a line item to the list it passed
AppendLineItem ==
    \E e \in LineItems :
        /\ Len(order_items) < MaxItems
        /\ order_items' = Append(order_items, e)
        /\ last' = Call("append", NoProduct, 0, 0, FALSE)
        /\ UNCHANGED <<invoices, invoice_counter, cartVars, payVars, bankVars>>

\* the caller removes the last line item of the list it passed
RemoveLineItem ==
    /\ Len(order_items) > 0
    /\ order_items' = SubSeq(order_items, 1, Len(order_items) - 1)
    /\ last' = Call("pop", NoProduct, 0, 0, FALSE)
    /\ UNCHANGED <<invoices, invoice_counter, cartVars, payVars, bankVars>>

\* the caller replaces a line item of the list it passed
ChangeLineItem ==
    \E k \in 1..Len(order_items), e \in LineItems :
        /\ e # order_items[k]
        /\ order_items' = [order_items EXCEPT ![k] = e]
        /\ last' = Call("setitem", NoProduct, k, 0, FALSE)
        /\ UNCHANGED <<invoices, invoice_counter, cartVars, payVars, bankVars>>

\* invoices, with their caller going on to change the list it passed
NextInvoice ==
    \/ NewInvoice
    \/ MarkAsPaid
    \/ GenerateInvoice
    \/ AppendLineItem
    \/ RemoveLineItem
    \/ ChangeLineItem

SpecInvoice == Init /\ [][NextInvoice]_vars

\* payments by PayPal
BillingNewPayment == NewPaymentOf(Orders, {PayPal(<<"a@b.com">>)})

\* Payment, Receipt and Invoice objects made and used in any order
NextBilling ==
    \/ BillingNewPayment
    \/ Process
    \/ GenerateReceipt
    \/ NewInvoice
    \/ MarkAsPaid
    \/ GenerateInvoice

SpecBilling == Init /\ [][NextBilling]_vars

(* ------------------------------ BankDebit ----------------------------- *)

Digits == {"1", "2"}

\* the account numbers passed: every string of 1..MaxAccountLen digits
AccountNumbers == UNION {[1..n -> Digits] : n \in 1..MaxAccountLen}

InitBankDebit ==
    /\ InitCart
    /\ InitPayment
    /\ InitInvoice
    /\ given_account \in AccountNumbers
    /\ bank_debit = <<>>
    /\ method_name = <<>>
    /\ last = Call("init", NoProduct, 0, 0, FALSE)

\* BankDebit(given_account)
NewBankDebit ==
    /\ bank_debit = <<>>
    /\ bank_debit' = <<BankDebit(given_account)>>
    /\ last' = Call("BankDebit", NoProduct, 0, 0, FALSE)
    /\ UNCHANGED <<given_account, method_name, cartVars, payVars, invVars>>

\* BankDebit.get_method_name()
BankDebitMethodName ==
    /\ bank_debit # <<>>
    /\ method_name' = get_method_name(bank_debit[1])
    /\ last' = Call("get_method_name", NoProduct, 0, 0, FALSE)
    /\ UNCHANGED <<given_account, bank_debit, cartVars, payVars, invVars>>

NextBankDebit ==
    \/ NewBankDebit
    \/ BankDebitMethodName

SpecBankDebit == InitBankDebit /\ [][NextBankDebit]_vars

(* ------------------------------ claims -------------------------------- *)

\* the lines of the cart whose product carries identifier id
LinesOf(its, id) == {i \in 1..Len(its) : product_id(its[i].product) = id}

\* the sum of quantity x unit price over a set of line numbers
RECURSIVE SumOfValues(_, _, _)
SumOfValues(S, its, prc) ==
    IF S = {} THEN 0
    ELSE LET i == CHOOSE k \in S : TRUE IN
         its[i].quantity * prc[its[i].product] + SumOfValues(S \ {i}, its, prc)

\* the sum of the quantities over a set of line numbers
RECURSIVE SumOfQuantities(_, _)
SumOfQuantities(S, its) ==
    IF S = {} THEN 0
    ELSE LET i == CHOOSE k \in S : TRUE IN
         its[i].quantity + SumOfQuantities(S \ {i}, its)

\* C1: in every reachable cart state no two lines refer to the same product
\* identifier.
C1_OneLinePerProductId ==
    \A i, j \in 1..Len(items) :
        i # j => product_id(items[i].product) # product_id(items[j].product)

\* C1 witness: a second Product object with the identifier of a product already
\* in a two-line cart was added, and was merged.
C1_Witness ==
    /\ last.op = "add_item" /\ last.ret /\ last.product = "p1x"
    /\ Len(items) = 2
    /\ \E i \in 1..Len(items) : items[i].product = "p1"

\* C2: right after a successful add_item or update_item_quantity, the quantity
\* of the line created or changed does not exceed its product's stock.
C2_QuantityWithinStock ==
    (/\ last.op \in {"add_item", "update_item_quantity"}
     /\ last.ret
     /\ last.op = "update_item_quantity" => last.quantity >= 1)
    => \A i \in LinesOf(items, last.id) : items[i].quantity <= stock[items[i].product]

\* C3: every line of every reachable cart has a quantity >= 1.
C3_QuantityAtLeastOne ==
    \A i \in 1..Len(items) : items[i].quantity >= 1

\* C4: add_item of an unavailable product (stock = 0), or of a quantity above
\* the product's stock, returns false and leaves the sequence of lines as it was.
C4_AddItemRejects ==
    [][(/\ last'.op = "add_item"
        /\ \/ stock[last'.product] = 0
           \/ last'.quantity > stock[last'.product])
       => (last'.ret = FALSE /\ items' = items)]_vars

\* C4 witness: add_item was refused on a non-empty cart for a product out of
\* stock, with a quantity that does not exceed the stock.
C4_Witness ==
    /\ last.op = "add_item" /\ ~last.ret
    /\ stock[last.product] = 0 /\ last.quantity <= 0
    /\ Len(items) > 0

\* C5: a successful add_item(p, q2) on a cart holding a line for p's identifier
\* keeps the number of lines, adds q2 to that line's quantity and leaves every
\* other line in place; with no such line it appends the one line (p, q2).
C5_AddItemMergesOrAppends ==
    [][(last'.op = "add_item" /\ last'.ret)
       => IF LinesOf(items, last'.id) # {}
          THEN /\ Len(items') = Len(items)
               /\ \A k \in 1..Len(items) :
                      IF k \in LinesOf(items, last'.id)
                      THEN items'[k].quantity = items[k].quantity + last'.quantity
                      ELSE items'[k] = items[k]
          ELSE items' = items \o <<[product |-> last'.product,
                                    quantity |-> last'.quantity]>>]_vars

\* C5 witness: add_item succeeded and the line of its product is the first of
\* two, so it was merged into, with a quantity that is not the one passed.
C5_Witness ==
    /\ last.op = "add_item" /\ last.ret
    /\ Len(items) = 2
    /\ product_id(items[1].product) = last.id
    /\ last.quantity >= 1
    /\ items[1].quantity > last.quantity

\* C6: update_item_quantity(id, q) with q <= 0 returns what remove_item(id)
\* returns and leaves the cart as remove_item(id) leaves it.
C6_UpdateNonPositiveIsRemove ==
    [][(last'.op = "update_item_quantity" /\ last'.quantity <= 0)
       => /\ last'.ret = remove_item(items, last'.id).ret
          /\ items' = remove_item(items, last'.id).items]_vars

\* C6 witness: update_item_quantity with quantity 0 removed a line and left
\* another one in the cart.
C6_Witness ==
    /\ last.op = "update_item_quantity" /\ last.quantity = 0 /\ last.ret
    /\ Len(items) = 1
    /\ LinesOf(items, last.id) = {}

\* C7: update_item_quantity(id, q) with q >= 1 returns false and changes nothing
\* when no line has identifier id or q exceeds the stock of the line's product;
\* otherwise it returns true, sets that line's quantity to q and changes no
\* other line.
C7_UpdateReplaces ==
    [][(last'.op = "update_item_quantity" /\ last'.quantity >= 1)
       => LET hit == LinesOf(items, last'.id) IN
          IF \/ hit = {}
             \/ \E i \in hit : last'.quantity > stock[items[i].product]
          THEN last'.ret = FALSE /\ items' = items
          ELSE /\ last'.ret = TRUE
               /\ Len(items') = Len(items)
               /\ \A k \in 1..Len(items) :
                      items'[k] = IF k \in hit
                                  THEN [product |-> items[k].product,
                                        quantity |-> last'.quantity]
                                  ELSE items[k]]_vars

\* C7 witness: update_item_quantity succeeded with a positive quantity on the
\* second line of a two-line cart.
C7_Witness ==
    /\ last.op = "update_item_quantity" /\ last.ret /\ last.quantity >= 1
    /\ Len(items) = 2
    /\ LinesOf(items, last.id) = {2}
    /\ items[2].quantity = last.quantity

\* C8: get_total() is the sum over the lines of quantity x current unit price,
\* 0 for the empty cart, whatever price changes were made after the lines were
\* added.
C8_TotalIsSumOfLines ==
    /\ get_total(items, price) = SumOfValues(1..Len(items), items, price)
    /\ items = <<>> => get_total(items, price) = 0

\* C8 witness: the price of a product was changed while a line of a two-line
\* cart refers to it with a quantity of 2 or more.
C8_Witness ==
    /\ last.op = "set_price"
    /\ Len(items) = 2
    /\ \E i \in 1..Len(items) :
           items[i].product = last.product /\ items[i].quantity >= 2

\* C9: get_item_count() is the sum of the quantities of the lines, 0 for the
\* empty cart and right after clear().
C9_ItemCountIsSumOfQuantities ==
    /\ get_item_count(items) = SumOfQuantities(1..Len(items), items)
    /\ items = <<>> => get_item_count(items) = 0
    /\ last.op = "clear" => get_item_count(items) = 0

\* C9 witness: two lines with quantities 3 and 2: the count is 5, not 2.
C9_Witness ==
    /\ Len(items) = 2
    /\ items[1].quantity = 3 /\ items[2].quantity = 2
    /\ get_item_count(items) = 5

\* C10: a Payment is Pending right after construction and for as long as
\* process() was not called on it, whatever generate_receipt and get_details
\* calls were made; it is Success or Failed only after a process() call.
C10_PendingUntilProcessed ==
    /\ last.op = "Payment" => payments[last.id].status = "Pending"
    /\ \A i \in 1..Len(payments) :
           /\ ~payments[i].processed => payments[i].status = "Pending"
           /\ payments[i].status \in {"Success", "Failed"} => payments[i].processed

\* C10 witness: generate_receipt was called on a Payment never processed, while
\* another Payment has been processed.
C10_Witness ==
    /\ last.op = "generate_receipt"
    /\ ~payments[last.id].processed
    /\ payments[last.id].status = "Pending"
    /\ \E j \in 1..Len(payments) : payments[j].status = "Failed"

Resolved == {"Success", "Failed"}

ProvidedKinds == {"DigitalWallet", "BankDebit", "PayPal"}

\* C11 as stated: once a Payment is Success or Failed, no later call changes
\* its status, whatever PaymentMethod it holds.
C11_ResolvedIsTerminal ==
    [][\A i \in 1..Len(payments) :
           payments[i].status \in Resolved
           => payments'[i].status = payments[i].status]_vars

\* C11 amended: a Payment that is Success or Failed never returns to Pending;
\* generate_receipt and get_details leave its status alone; a later process()
\* sets it to the outcome of that call, so it changes only when the held
\* method reports another outcome than before, which none of DigitalWallet,
\* BankDebit and PayPal does.
C11_ResolvedStaysResolved ==
    [][\A i \in 1..Len(payments) :
           payments[i].status \in Resolved
           => /\ payments'[i].status \in Resolved
              /\ payments'[i].status # payments[i].status
                 => /\ last'.op = "process" /\ last'.id = i
                    /\ payments[i].payment_method.kind \notin ProvidedKinds
              /\ (last'.op = "process" /\ last'.id = i)
                 => payments'[i].status = IF last'.ret THEN "Success" ELSE "Failed"]_vars

\* C11 witness: process() has just failed on a Payment that holds a receipt,
\* which it got while it was Success.
C11_Witness ==
    /\ last.op = "process" /\ ~last.ret
    /\ payments[last.id].status = "Failed"
    /\ payments[last.id].receipt # <<>>

\* C12: for a Payment holding a DigitalWallet, BankDebit or PayPal, every
\* process() returns true and sets the status to Success; it is never Failed,
\* and once processed it is Success.
C12_ProvidedVariantsSucceed ==
    /\ \A i \in 1..Len(payments) :
           payments[i].payment_method.kind \in ProvidedKinds
           => /\ payments[i].status # "Failed"
              /\ payments[i].processed => payments[i].status = "Success"
    /\ (last.op = "process" /\ payments[last.id].payment_method.kind \in ProvidedKinds)
       => last.ret /\ payments[last.id].status = "Success"

\* C12 witness: process() was called on a BankDebit payment, while a payment
\* with another kind of method has failed.
C12_Witness ==
    /\ last.op = "process" /\ last.ret
    /\ payments[last.id].payment_method.kind = "BankDebit"
    /\ payments[last.id].status = "Success"
    /\ \E j \in 1..Len(payments) : payments[j].status = "Failed"

\* C13: generate_receipt on a Payment that is Pending or Failed returns
\* nothing, leaves payment.receipt as it is and does not advance the receipt
\* counter; process() never creates or changes a receipt; a receipt is stored
\* only by a generate_receipt call made while the status is Success.
C13_ReceiptOnlyOnSuccess ==
    [][/\ (last'.op = "generate_receipt" /\ payments[last'.id].status # "Success")
          => /\ last'.ret = FALSE
             /\ payments' = payments
             /\ receipt_counter' = receipt_counter
       /\ last'.op = "process"
          => /\ receipt_counter' = receipt_counter
             /\ \A i \in 1..Len(payments) : payments'[i].receipt = payments[i].receipt
       /\ \A i \in 1..Len(payments) :
              payments'[i].receipt # payments[i].receipt
              => /\ last'.op = "generate_receipt" /\ last'.id = i
                 /\ payments[i].status = "Success"]_vars

\* C13 witness: generate_receipt returned nothing on a Failed payment that
\* still holds the receipt it got earlier.
C13_Witness ==
    /\ last.op = "generate_receipt" /\ ~last.ret
    /\ payments[last.id].status = "Failed"
    /\ payments[last.id].receipt # <<>>

\* the receipt numbers held by the payments
HeldReceiptNumbers(pays) ==
    {pays[i].receipt[1].receipt_number : i \in {j \in 1..Len(pays) : pays[j].receipt # <<>>}}

\* C14: generate_receipt(customer_name) on a Success payment returns a Receipt
\* with the Payment's amount, payment_id and order_id and the method's
\* get_method_name(), numbered with the next unused receipt number, and stores
\* it as payment.receipt, replacing the one stored before.
C14_ReceiptOfSuccess ==
    [][(last'.op = "generate_receipt" /\ payments[last'.id].status = "Success")
       => LET pay == payments[last'.id]
              new == payments'[last'.id]
          IN /\ last'.ret = TRUE
             /\ Len(new.receipt) = 1
             /\ new.receipt[1].amount = pay.amount
             /\ new.receipt[1].payment_id = pay.payment_id
             /\ new.receipt[1].order_id = pay.order_id
             /\ new.receipt[1].payment_method = get_method_name(pay.payment_method)
             /\ new.receipt[1].receipt_number = receipt_counter
             /\ new.receipt[1].receipt_number \notin HeldReceiptNumbers(payments)
             /\ new.receipt # pay.receipt
             /\ receipt_counter' = receipt_counter + 1]_vars

\* C14 witness: the only receipt held is the second one made, so it replaced
\* the first on the same payment.
C14_Witness ==
    /\ last.op = "generate_receipt" /\ last.ret
    /\ payments[last.id].receipt # <<>>
    /\ payments[last.id].receipt[1].receipt_number = 2001
    /\ \A j \in 1..Len(payments) : j # last.id => payments[j].receipt = <<>>
    /\ Len(payments) = 2

\* C15: the k-th Invoice made has number 1000+(k-1), the k-th Receipt number
\* 2000+(k-1) and the k-th Payment id k, in whatever order objects of the three
\* kinds are made; each counter counts the objects of its own kind only, and no
\* two objects of a kind share an identifier.
C15_IndependentCounters ==
    /\ \A k \in 1..Len(invoices) : invoices[k].invoice_number = 1000 + (k - 1)
    /\ \A k \in 1..Len(receipts) : receipts[k].receipt_number = 2000 + (k - 1)
    /\ \A k \in 1..Len(payments) : payments[k].payment_id = k
    /\ invoice_counter = 1000 + Len(invoices)
    /\ receipt_counter = 2000 + Len(receipts)
    /\ payment_counter = 1 + Len(payments)
    /\ \A j, k \in 1..Len(invoices) :
           j # k => invoices[j].invoice_number # invoices[k].invoice_number
    /\ \A j, k \in 1..Len(receipts) :
           j # k => receipts[j].receipt_number # receipts[k].receipt_number
    /\ \A j, k \in 1..Len(payments) :
           j # k => payments[j].payment_id # payments[k].payment_id

\* C15 witness: two objects of each kind exist, the second Invoice made last,
\* after both receipts.
C15_Witness ==
    /\ last.op = "Invoice" /\ last.id = 2
    /\ Len(invoices) = 2 /\ Len(receipts) = 2 /\ Len(payments) = 2
    /\ invoices[2].invoice_number = 1001
    /\ receipts[2].receipt_number = 2001

\* C16: an Invoice is Unpaid until mark_as_paid() is first called on it and
\* Paid in every state after; no further mark_as_paid, generate_invoice or
\* Payment operation changes that.
C16_PaidOnceMarked ==
    \A k \in 1..Len(invoices) :
        invoices[k].status = IF invoices[k].marked THEN "Paid" ELSE "Unpaid"

\* C16 witness: process() succeeded on a Payment for an order whose Invoice is
\* still Unpaid, while another Invoice is Paid.
C16_Witness ==
    /\ last.op = "process" /\ last.ret
    /\ \E k \in 1..Len(invoices) :
           /\ invoices[k].order_id = payments[last.id].order_id
           /\ invoices[k].status = "Unpaid"
    /\ \E k \in 1..Len(invoices) : invoices[k].status = "Paid"

\* C17: the items and the total reported by generate_invoice() are those the
\* Invoice was constructed from, whatever the caller does afterwards to the
\* list it passed.
C17_InvoiceItemsAreSnapshot ==
    \A k \in 1..Len(invoices) :
        /\ generate_invoice(invoices[k], order_items).items = invoices[k].given_items
        /\ \E o \in Orders :
               /\ o.order_id = invoices[k].order_id
               /\ o.amount = generate_invoice(invoices[k], order_items).total_amount

\* whether the string hay holds the string needle as a run of characters
Contains(hay, needle) ==
    \E i \in 1..(Len(hay) - Len(needle) + 1) :
        SubSeq(hay, i, i + Len(needle) - 1) = needle

\* C18: for an account number of any length >= 1, neither the field the
\* BankDebit stores nor what get_method_name() returns holds the complete
\* account number.
C18_NeverWholeAccountNumber ==
    /\ bank_debit # <<>> => bank_debit[1].data # given_account
    /\ method_name # <<>> => ~Contains(method_name, given_account)

\* the cart without the lines of identifier id, the others in their order
WithoutLinesOf(its, id) == SelectSeq(its, LAMBDA it : product_id(it.product) # id)

CartOps == {"add_item", "remove_item", "update_item_quantity", "clear"}

\* C20: no ShoppingCart operation changes the stock of a product, so after any
\* of them a second cart can still take the full stock there was of each
\* product; get_total and get_item_count are values of the state and write
\* nothing.
C20_StockUntouched ==
    [][last'.op \in CartOps
       => /\ stock' = stock
          /\ \A p \in Products :
                 stock[p] > 0 => add_item(<<>>, stock', p, stock[p]).ret]_vars

\* C20 witness: the cart holds the full stock of a product after a successful
\* add_item, and an empty cart can take the full stock of it as well.
C20_Witness ==
    /\ last.op = "add_item" /\ last.ret
    /\ \E i \in 1..Len(items) :
           /\ items[i].product = last.product
           /\ items[i].quantity = stock[last.product]
           /\ items[i].quantity = MaxStock
    /\ add_item(<<>>, stock, last.product, MaxStock).ret
    /\ add_item(<<>>, stock, last.product, MaxStock).items
           = <<OrderItem(last.product, MaxStock)>>

====
